---- MODULE Spec2Model ----
(***************************************************************************)
(* Model of the proptech library: the metric functions of                  *)
(* proptech/features.py, the fetchers of proptech/db.py and the report     *)
(* pipeline of proptech/cli.py.                                            *)
(*                                                                         *)
(* Numbers.  A Python float is modelled as an extended rational <<n, d>>:  *)
(* d > 0 and gcd(n, d) = 1 for a finite value, <<1, 0>> for +inf,          *)
(* <<-1, 0>> for -inf and <<0, 0>> for nan.  Arithmetic is exact: the      *)
(* rounding of IEEE-754 is not modelled, its special values and Python's   *)
(* ZeroDivisionError are.                                                  *)
(*                                                                         *)
(* Results.  A call returns [err |-> "none", val |-> v] or, when it        *)
(* raises, [err |-> <exception name>, val |-> <<>>].                      *)
(*                                                                         *)
(* Names.  features.py uses Lease, Unit, Permit, TitleRecord, Building and  *)
(* Parcel in its annotations without importing them; its header says it is  *)
(* to be appended below the dataclasses of models.py, and it is modelled    *)
(* so: with those names bound to the records of models.py.                  *)
(***************************************************************************)
EXTENDS Integers, Sequences, FiniteSets, TLC

VARIABLES today, inp, call, db, args, pc, fetched, loc, out, err

vars == <<today, inp, call, db, args, pc, fetched, loc, out, err>>
libVars == <<inp, call>>
cliVars == <<db, args, pc, fetched, loc, out, err>>

(***************************************************************************)
(* Bounds of the model                                                     *)
(***************************************************************************)
MaxNum == 2
MaxLen == 2
MaxDay == 2

(***************************************************************************)
(* Float arithmetic                                                        *)
(***************************************************************************)
Abs(i) == IF i < 0 THEN -i ELSE i
Sgn(i) == IF i < 0 THEN -1 ELSE IF i > 0 THEN 1 ELSE 0

RECURSIVE GCD(_, _)
GCD(a, b) == IF b = 0 THEN a ELSE GCD(b, a % b)

Norm(n, d) ==
    IF d = 0 THEN <<Sgn(n), 0>>
    ELSE LET g == GCD(Abs(n), Abs(d))
             s == IF d < 0 THEN -1 ELSE 1
         IN  <<s * (n \div g), s * (d \div g)>>

R(i) == <<i, 1>>
Zero == <<0, 1>>
One == <<1, 1>>
Inf == <<1, 0>>
NegInf == <<-1, 0>>
NaN == <<0, 0>>

IsNaN(a) == a = NaN
IsFinite(a) == a[2] > 0
IsZero(a) == a[1] = 0 /\ a[2] > 0

FNeg(a) == <<-a[1], a[2]>>
FAdd(a, b) ==
    IF a[2] = 0 /\ b[2] = 0 THEN (IF a = b THEN a ELSE NaN)
    ELSE Norm(a[1] * b[2] + b[1] * a[2], a[2] * b[2])
FSub(a, b) == FAdd(a, FNeg(b))
FMul(a, b) == Norm(a[1] * b[1], a[2] * b[2])
\* a / b for b # 0 (IEEE-754: x/inf = 0, inf/inf = nan, inf/x = +-inf)
FDiv(a, b) == Norm(a[1] * b[2] * Sgn(b[1]), a[2] * Abs(b[1]))
FLt(a, b) ==
    IF IsNaN(a) \/ IsNaN(b) THEN FALSE
    ELSE IF a[2] = 0 /\ b[2] = 0 THEN a[1] < b[1]
    ELSE a[1] * b[2] < b[1] * a[2]
FLe(a, b) ==
    IF IsNaN(a) \/ IsNaN(b) THEN FALSE
    ELSE IF a[2] = 0 /\ b[2] = 0 THEN a[1] <= b[1]
    ELSE a[1] * b[2] <= b[1] * a[2]
FGe(a, b) == FLe(b, a)
FGt(a, b) == FLt(b, a)
\* Python's max(a, b) and min(a, b): the first argument wins a tie or a nan
PyMax(a, b) == IF FGt(b, a) THEN b ELSE a
PyMin(a, b) == IF FLt(b, a) THEN b ELSE a

(***************************************************************************)
(* Results of a call                                                       *)
(***************************************************************************)
Ok(v) == [err |-> "none", val |-> v]
Raise(e) == [err |-> e, val |-> <<>>]
Raised(r) == r.err # "none"

\* Python's a / b: ZeroDivisionError when b is zero
PyDiv(a, b) == IF IsZero(b) THEN Raise("ZeroDivisionError") ELSE Ok(FDiv(a, b))

(***************************************************************************)
(* 1) Valuation & investment metrics; 2) lending                           *)
(***************************************************************************)
\* mutant: the sum is not annualized
noi_monthly(rent_monthly_sum, other_income_monthly, opex_monthly) ==
    FSub(FAdd(rent_monthly_sum, other_income_monthly), opex_monthly)

noi(rent_monthly_sum, other_income_monthly, opex_monthly) ==
    FMul(FSub(FAdd(rent_monthly_sum, other_income_monthly), opex_monthly), R(12))

\* mutant: the guard tests value < 0
cap_rate_strict(noi_annual, value) ==
    IF FLt(value, Zero) THEN Ok(Zero) ELSE PyDiv(noi_annual, value)

cap_rate(noi_annual, value) ==
    IF FLe(value, Zero) THEN Ok(Zero) ELSE PyDiv(noi_annual, value)

\* mutant: the sentinel of the ratio functions
value_from_cap_zero(noi_annual, market_cap_rate) ==
    IF FLe(market_cap_rate, Zero) THEN Ok(Zero) ELSE PyDiv(noi_annual, market_cap_rate)

value_from_cap(noi_annual, market_cap_rate) ==
    IF FLe(market_cap_rate, Zero) THEN Ok(Inf) ELSE PyDiv(noi_annual, market_cap_rate)

dscr(noi_annual, annual_debt_service) ==
    IF FLe(annual_debt_service, Zero) THEN Ok(Zero)
    ELSE PyDiv(noi_annual, annual_debt_service)

equity_multiple(total_distributions, total_equity_invested) ==
    IF FLe(total_equity_invested, Zero) THEN Ok(Zero)
    ELSE PyDiv(total_distributions, total_equity_invested)

yield_on_cost(stabilized_noi_annual, total_project_cost) ==
    IF FLe(total_project_cost, Zero) THEN Ok(Zero)
    ELSE PyDiv(stabilized_noi_annual, total_project_cost)

ltv(current_loan_balance, property_value) ==
    IF FLe(property_value, Zero) THEN Ok(Zero)
    ELSE PyDiv(current_loan_balance, property_value)

cltv(total_liens_balance, property_value) ==
    IF FLe(property_value, Zero) THEN Ok(Zero)
    ELSE PyDiv(total_liens_balance, property_value)

dti(monthly_debt_obligations, monthly_gross_income) ==
    IF FLe(monthly_gross_income, Zero) THEN Ok(Zero)
    ELSE PyDiv(monthly_debt_obligations, monthly_gross_income)

(***************************************************************************)
(* Python values: None, dates, sequences                                   *)
(***************************************************************************)
\* Optional[T]: <<>> is None, <<v>> is the value v
None == <<>>
Some(v) == <<v>>
IsNone(o) == o = <<>>
The(o) == o[1]

RECURSIVE FSum(_)
\* sum(...) of a sequence of floats, left to right from 0
FSum(s) == IF s = <<>> THEN Zero ELSE FAdd(FSum(SubSeq(s, 1, Len(s) - 1)), s[Len(s)])

\* [l.rent_monthly for l in s]
Rents(s) == [i \in 1..Len(s) |-> s[i].rent_monthly]

\* min(...) of a non-empty set of dates
SetMin(S) == CHOOSE m \in S : \A o \in S : m <= o

(***************************************************************************)
(* 3) Capital-markets & securitization                                     *)
(***************************************************************************)
StaleDays == 3650

\* valuation_date, permit_completed_on: Optional[date]; reads date.today()
tape_qc_flags(valuation_date, permit_completed_on, title_clean_flag) ==
    Ok([valuation_missing |-> IsNone(valuation_date),
        permit_stale |-> IsNone(permit_completed_on)
                         \/ (today - The(permit_completed_on)) > StaleDays,
        title_not_clean |-> ~title_clean_flag])

\* (d - t0).days / 365.25
years_between(d, t0) == Norm((d - t0) * 4, 1461)

\* mutant: years are counted from the first pair's date, not the earliest
weighted_average_life_from_first(schedule) ==
    LET items == schedule IN
    IF items = <<>> THEN Ok(Zero)
    ELSE LET total_prin == FSum([i \in 1..Len(items) |-> items[i][2]]) IN
         IF FLe(total_prin, Zero) THEN Ok(Zero)
         ELSE LET t0 == items[1][1]
                  num == FSum([i \in 1..Len(items) |->
                                 FMul(years_between(items[i][1], t0), items[i][2])])
              IN  PyDiv(num, total_prin)

weighted_average_life(schedule) ==
    LET items == schedule IN
    IF items = <<>> THEN Ok(Zero)
    ELSE LET total_prin == FSum([i \in 1..Len(items) |-> items[i][2]]) IN
         IF FLe(total_prin, Zero) THEN Ok(Zero)
         ELSE LET t0 == SetMin({items[i][1] : i \in 1..Len(items)})
                  num == FSum([i \in 1..Len(items) |->
                                 FMul(years_between(items[i][1], t0), items[i][2])])
              IN  PyDiv(num, total_prin)

(***************************************************************************)
(* 4) Leasing & revenue management                                         *)
(***************************************************************************)
IsActive(l) == l.status = "active"

\* mutant: the status is not tested
rent_roll_total_all(active_leases) ==
    Ok(FSum(Rents(active_leases)))

rent_roll_total(active_leases) ==
    Ok(FSum(Rents(SelectSeq(active_leases, IsActive))))

\* mutant: the occupied ids are not intersected with the unit ids
occupancy_rate_all_occupied(units, leases) ==
    LET unit_ids == {units[i].id : i \in 1..Len(units)}
        occupied == {leases[i].unit_id : i \in {j \in 1..Len(leases) : IsActive(leases[j])}}
        denom == Cardinality(unit_ids)
    IN  IF denom = 0 THEN Ok(Zero)
        ELSE PyDiv(R(Cardinality(occupied)), R(denom))

occupancy_rate(units, leases) ==
    LET unit_ids == {units[i].id : i \in 1..Len(units)}
        occupied == {leases[i].unit_id : i \in {j \in 1..Len(leases) : IsActive(leases[j])}}
        denom == Cardinality(unit_ids)
    IN  IF denom = 0 THEN Ok(Zero)
        ELSE PyDiv(R(Cardinality(unit_ids \cap occupied)), R(denom))

avg_time_to_lease(days_vacant_list) ==
    LET lst == days_vacant_list IN
    IF lst = <<>> THEN Ok(Zero) ELSE PyDiv(FSum(lst), R(Len(lst)))

(***************************************************************************)
(* 5) Operations, maintenance & CapEx                                      *)
(***************************************************************************)
kwh_per_m2_day_from_series(unit_obj, readings_daily_kwh) ==
    LET vals == readings_daily_kwh IN
    IF FLe(unit_obj.nla_m2, Zero) \/ vals = <<>> THEN Ok(Zero)
    ELSE LET mean == PyDiv(FSum(vals), R(Len(vals))) IN
         IF Raised(mean) THEN mean ELSE PyDiv(mean.val, unit_obj.nla_m2)

mttr(total_repair_time_hours, tickets_closed) ==
    IF FLe(tickets_closed, Zero) THEN Ok(Zero)
    ELSE PyDiv(total_repair_time_hours, tickets_closed)

opex_per_unit(total_opex_monthly, unit_count) ==
    IF FLe(unit_count, Zero) THEN Ok(Zero) ELSE PyDiv(total_opex_monthly, unit_count)

(***************************************************************************)
(* 6) Compliance, permits, legal certainty                                 *)
(***************************************************************************)
\* perm: Optional[Permit]; reads date.today()
days_since_last_occupancy(perm) ==
    IF IsNone(perm) \/ IsNone(The(perm).completed_on) THEN Ok(None)
    ELSE Ok(Some(today - The(The(perm).completed_on)))

\* str.lower() on the lien statuses of the model
Lower(s) ==
    CASE s = "FREE" -> "free"
      [] s = "Free" -> "free"
      [] s = "Released" -> "released"
      [] OTHER -> s

\* dict.get(key, default)
DictGet(d, key, default) == IF key \in DOMAIN d THEN d[key] ELSE default

\* mutant: no test for None
title_clean_flag_unguarded(t) ==
    IF IsNone(t) THEN Raise("AttributeError")
    ELSE Ok(Lower(DictGet(The(t).encumbrance, "lien_status", "")) \in {"free", "released"})

title_clean_flag_from_record(t) ==
    IF IsNone(t) THEN Ok(FALSE)
    ELSE Ok(Lower(DictGet(The(t).encumbrance, "lien_status", "")) \in {"free", "released"})

(***************************************************************************)
(* 7) ESG, energy & resilience                                             *)
(***************************************************************************)
water_intensity_m3_per_m2_year(m3_per_year, nla_m2) ==
    IF FLe(nla_m2, Zero) THEN Ok(Zero) ELSE PyDiv(m3_per_year, nla_m2)

simple_hazard_distance_score(distance_m, threshold_m) ==
    IF FGe(distance_m, threshold_m) THEN Ok(One)
    ELSE LET q == PyDiv(distance_m, threshold_m) IN
         IF Raised(q) THEN q ELSE Ok(PyMax(Zero, q.val))

(***************************************************************************)
(* 8) Market intelligence; 9) development; 12) tenant analytics            *)
(***************************************************************************)
turnover_rate(leases_ended, total_units) ==
    IF FLe(total_units, Zero) THEN Ok(Zero) ELSE PyDiv(leases_ended, total_units)

far(gfa_m2, lot_area_m2) ==
    IF FLe(lot_area_m2, Zero) THEN Ok(Zero) ELSE PyDiv(gfa_m2, lot_area_m2)

coverage_ratio(footprint_m2, lot_area_m2) ==
    IF FLe(lot_area_m2, Zero) THEN Ok(Zero) ELSE PyDiv(footprint_m2, lot_area_m2)

parking_ratio(spaces, units_count) ==
    IF FLe(units_count, Zero) THEN Ok(Zero) ELSE PyDiv(spaces, units_count)

amenity_utilization(used_slots, total_slots) ==
    IF FLe(total_slots, Zero) THEN Ok(Zero) ELSE PyDiv(used_slots, total_slots)

cohort_churn_rate(ended_leases_in_cohort, cohort_size) ==
    IF FLe(cohort_size, Zero) THEN Ok(Zero) ELSE PyDiv(ended_leases_in_cohort, cohort_size)

(***************************************************************************)
(* 10) Insurance & risk transfer                                           *)
(***************************************************************************)
deductible_effect_expected_cost(expected_annual_claim_sar, deductible_sar, claim_count_per_year) ==
    IF FLe(claim_count_per_year, Zero) THEN Ok(expected_annual_claim_sar)
    ELSE LET expected_per_claim == PyDiv(expected_annual_claim_sar, claim_count_per_year)
             reduction == FMul(PyMin(deductible_sar, expected_per_claim.val),
                               claim_count_per_year)
         IN  IF Raised(expected_per_claim) THEN expected_per_claim
             ELSE Ok(PyMax(Zero, FSub(expected_annual_claim_sar, reduction)))

(***************************************************************************)
(* 13) Portfolio construction & hedging                                    *)
(***************************************************************************)
RECURSIVE SumValues(_, _)
\* sum(inv.values()) over the keys S of the dict f
SumValues(f, S) ==
    IF S = {} THEN Zero
    ELSE LET k == CHOOSE k \in S : TRUE IN FAdd(f[k], SumValues(f, S \ {k}))

\* mutant: total is not tested for 0
simple_risk_parity_weights_unguarded(variances) ==
    LET inv == [k \in DOMAIN variances |->
                  IF FLe(variances[k], Zero) THEN Zero ELSE FDiv(One, variances[k])]
        total == SumValues(inv, DOMAIN inv)
        w == [k \in DOMAIN inv |-> PyDiv(inv[k], total)]
    IN  IF \E k \in DOMAIN w : Raised(w[k])
        THEN Raise("ZeroDivisionError")
        ELSE Ok([k \in DOMAIN w |-> w[k].val])

\* variances: a dict, modelled as a function from bucket to float
simple_risk_parity_weights(variances) ==
    LET inv == [k \in DOMAIN variances |->
                  IF FLe(variances[k], Zero) THEN Ok(Zero) ELSE PyDiv(One, variances[k])]
    IN  IF \E k \in DOMAIN inv : Raised(inv[k])
        THEN Raise("ZeroDivisionError")
        ELSE LET total == SumValues([k \in DOMAIN inv |-> inv[k].val], DOMAIN inv)
                 w == [k \in DOMAIN inv |->
                         IF total = Zero THEN Ok(Zero) ELSE PyDiv(inv[k].val, total)]
             IN  IF \E k \in DOMAIN w : Raised(w[k])
                 THEN Raise("ZeroDivisionError")
                 ELSE Ok([k \in DOMAIN w |-> w[k].val])

(***************************************************************************)
(* 14) Islamic finance                                                     *)
(***************************************************************************)
\* months: int
murabaha_equal_installments_schedule(cost_price, profit_markup, months) ==
    LET total_price == FMul(cost_price, FAdd(One, profit_markup)) IN
    IF months <= 0 THEN Ok(<<total_price>>)
    ELSE LET installment == PyDiv(total_price, R(months)) IN
         IF Raised(installment) THEN installment
         ELSE Ok([i \in 1..months |-> installment.val])

(***************************************************************************)
(* 15) Standard reports & exports                                          *)
(***************************************************************************)
\* latest_title: Optional[TitleRecord]; latest_permit: Optional[Permit];
\* reads date.today()
los_package_dict(u, b, p, latest_title, latest_permit, avm_value, valuation_date) ==
    Ok([parcel |-> [id |-> p.id, muni_id |-> p.muni_id, zoning |-> p.zoning],
        building |-> [id |-> b.id, year_built |-> b.year_built, floors |-> b.floors,
                      bua_m2 |-> b.bua_m2],
        unit |-> [id |-> u.id, use_type |-> u.use_type, nla_m2 |-> u.nla_m2,
                  floor_no |-> u.floor_no],
        title |-> [present |-> ~IsNone(latest_title),
                   deed_no |-> IF ~IsNone(latest_title)
                               THEN Some(The(latest_title).deed_no) ELSE None,
                   clean |-> title_clean_flag_from_record(latest_title).val],
        permit_occupancy |->
                  [present |-> ~IsNone(latest_permit) /\ The(latest_permit).kind = "occupancy",
                   completed_on |-> IF ~IsNone(latest_permit)
                                    THEN The(latest_permit).completed_on ELSE None],
        valuation |-> [avm_value |-> avm_value, valuation_date |-> valuation_date],
        generated_on |-> today])

(***************************************************************************)
(* Domain model (proptech/models.py)                                       *)
(***************************************************************************)
Parcel(id) == [id |-> id, muni_id |-> "M-1", zoning |-> "R2", geom_wkt |-> "POLYGON"]

Building(id, parcel_id) ==
    [id |-> id, parcel_id |-> parcel_id, year_built |-> 2000, structure |-> "rc",
     floors |-> 3, bua_m2 |-> R(300)]

Unit(id, building_id, nla_m2) ==
    [id |-> id, building_id |-> building_id, use_type |-> "residential",
     nla_m2 |-> nla_m2, floor_no |-> 1, bedrooms |-> None, orientation |-> None]

Lease(unit_id, start_date, end_date, rent_monthly, status) ==
    [unit_id |-> unit_id, tenant_hash |-> "t", start_date |-> start_date,
     end_date |-> end_date, rent_monthly |-> rent_monthly, deposit |-> Zero,
     status |-> status]

Permit(scope, scope_id, kind, issued_on, completed_on) ==
    [scope |-> scope, scope_id |-> scope_id, kind |-> kind, status |-> "issued",
     issued_on |-> issued_on, completed_on |-> completed_on, permit_no |-> "P-1"]

TitleRecord(scope, scope_id, deed_no, encumbrance, effective_on) ==
    [scope |-> scope, scope_id |-> scope_id, owner_hash |-> "o", deed_no |-> deed_no,
     encumbrance |-> encumbrance, effective_on |-> effective_on]

Meter(id, scope, scope_id, type) ==
    [id |-> id, scope |-> scope, scope_id |-> scope_id, type |-> type,
     provider_acct |-> None]

\* ts: a datetime <<day, hour>>
MeterReading(meter_id, ts, value) == [meter_id |-> meter_id, ts |-> ts, value |-> value]

\* date.year of a day number (day 0 is 1 January 2026; years of 365 days)
YearOf(d) == 2026 + (d \div 365)

\* asof: Optional[date]; reads date.today() when asof is None
building_age_years(b, asof) ==
    LET d == IF IsNone(asof) THEN today ELSE The(asof)
        age == YearOf(d) - b.year_built
    IN  IF age > 0 THEN age ELSE 0

LeaseStatuses == {"planned", "active", "expired", "defaulted"}

(***************************************************************************)
(* Inputs of the metric library                                            *)
(***************************************************************************)
SeqUpTo(S, n) == UNION {[1..k -> S] : k \in 0..n}

Ints == (-MaxNum)..MaxNum
Floats == {R(i) : i \in Ints} \cup {<<1, 2>>, Inf}
Days == 0..MaxDay

\* a lease whose dates lie in the past, one whose dates span today
PastWindow == <<-30, -10>>
OpenWindow == <<-5, 30>>

RollLeases ==
    {Lease("u1", w[1], w[2], R(r), st) :
        w \in {PastWindow, OpenWindow}, r \in {1000, 2000}, st \in LeaseStatuses}
OccLeases ==
    {Lease(u, OpenWindow[1], OpenWindow[2], R(1000), st) :
        u \in {"u1", "u2", "u3"}, st \in {"active", "expired"}}
OccUnits == {Unit(u, "b1", R(50)) : u \in {"u1", "u2"}}

Encumbrances ==
    {<<>>, [lien_status |-> "FREE"], [lien_status |-> "released"],
     [lien_status |-> "mortgaged"]}
LibPermits ==
    {None} \cup {Some(Permit("building", "b1", "occupancy", -4000, c)) :
                   c \in {None, Some(-3650), Some(-10)}}
LibTitles ==
    {None} \cup {Some(TitleRecord("unit", "u1", "D-1", e, -100)) : e \in Encumbrances}

SeriesValues == {R(0), R(3), R(6)}
SchedDates == {0, 365}
SchedPayments == {R(0), R(100), R(-100), R(50), R(-50)}
Buckets == {"a", "b"}
\* variances: finite numbers of either sign, whole and fractional
VarianceValues == {R(i) : i \in Ints} \cup {<<1, 2>>}

NoInput ==
    [kind |-> "none", x |-> Zero, y |-> Zero, z |-> Zero, leases |-> <<>>,
     units |-> <<>>, perm |-> None, title |-> None, vdate |-> None,
     series |-> <<>>, schedule |-> <<>>, variances |-> <<>>]

Inputs ==
    {[NoInput EXCEPT !.kind = "num", !.x = a, !.y = b, !.z = c] :
        a \in Floats, b \in Floats, c \in Floats}
    \cup {[NoInput EXCEPT !.kind = "roll", !.leases = ls] :
            ls \in SeqUpTo(RollLeases, MaxLen)}
    \cup {[NoInput EXCEPT !.kind = "occ", !.leases = ls, !.units = us] :
            ls \in SeqUpTo(OccLeases, MaxLen), us \in SeqUpTo(OccUnits, MaxLen)}
    \cup {[NoInput EXCEPT !.kind = "compl", !.perm = pm, !.title = t, !.vdate = v] :
            pm \in LibPermits, t \in LibTitles, v \in {None, Some(-1)}}
    \cup {[NoInput EXCEPT !.kind = "series", !.series = sr, !.x = a] :
            sr \in SeqUpTo(SeriesValues, MaxLen), a \in {R(0), R(3), R(-3)}}
    \cup {[NoInput EXCEPT !.kind = "sched", !.schedule = sc] :
            sc \in SeqUpTo(SchedDates \X SchedPayments, MaxLen)}
    \cup {[NoInput EXCEPT !.kind = "vars", !.variances = v] :
            v \in UNION {[B -> VarianceValues] : B \in SUBSET Buckets}}

NoCall == [fn |-> "none", res |-> Ok(None)]

\* the report pipeline before it is started
CliIdle ==
    /\ db = <<>>
    /\ args = <<>>
    /\ pc = "idle"
    /\ fetched = <<>>
    /\ loc = <<>>
    /\ out = <<>>
    /\ err = "none"

InitLib ==
    /\ today \in Days
    /\ inp \in Inputs
    /\ call = NoCall
    /\ CliIdle

\* one call of a library function on the inputs: the call and what it returned
Returns(kind, fn, res) ==
    /\ pc = "idle"
    /\ inp.kind = kind
    /\ call' = [fn |-> fn, res |-> res]
    /\ UNCHANGED <<today, inp, cliVars>>

\* the environment: the current date advances
Tick ==
    /\ today < MaxDay
    /\ today' = today + 1
    /\ UNCHANGED <<libVars, cliVars>>

CallCapRate == Returns("num", "cap_rate", cap_rate(inp.x, inp.y))
CallValueFromCap == Returns("num", "value_from_cap", value_from_cap(inp.x, inp.y))
CallDscr == Returns("num", "dscr", dscr(inp.x, inp.y))
CallEquityMultiple == Returns("num", "equity_multiple", equity_multiple(inp.x, inp.y))
CallYieldOnCost == Returns("num", "yield_on_cost", yield_on_cost(inp.x, inp.y))
CallLtv == Returns("num", "ltv", ltv(inp.x, inp.y))
CallCltv == Returns("num", "cltv", cltv(inp.x, inp.y))
CallDti == Returns("num", "dti", dti(inp.x, inp.y))
CallFar == Returns("num", "far", far(inp.x, inp.y))
CallCoverageRatio == Returns("num", "coverage_ratio", coverage_ratio(inp.x, inp.y))
CallParkingRatio == Returns("num", "parking_ratio", parking_ratio(inp.x, inp.y))
CallMttr == Returns("num", "mttr", mttr(inp.x, inp.y))
CallOpexPerUnit == Returns("num", "opex_per_unit", opex_per_unit(inp.x, inp.y))
CallWaterIntensity ==
    Returns("num", "water_intensity_m3_per_m2_year",
            water_intensity_m3_per_m2_year(inp.x, inp.y))
CallTurnoverRate == Returns("num", "turnover_rate", turnover_rate(inp.x, inp.y))
CallAmenityUtilization ==
    Returns("num", "amenity_utilization", amenity_utilization(inp.x, inp.y))
CallCohortChurnRate ==
    Returns("num", "cohort_churn_rate", cohort_churn_rate(inp.x, inp.y))
CallHazardScore ==
    Returns("num", "simple_hazard_distance_score",
            simple_hazard_distance_score(inp.x, inp.y))
CallDeductibleEffect ==
    Returns("num", "deductible_effect_expected_cost",
            deductible_effect_expected_cost(inp.x, inp.y, inp.z))
CallMurabaha ==
    /\ inp.z[2] = 1
    /\ Returns("num", "murabaha_equal_installments_schedule",
               murabaha_equal_installments_schedule(inp.x, inp.y, inp.z[1]))
CallRentRollTotal == Returns("roll", "rent_roll_total", rent_roll_total(inp.leases))
CallOccupancyRate ==
    Returns("occ", "occupancy_rate", occupancy_rate(inp.units, inp.leases))
CallDaysSinceLastOccupancy ==
    Returns("compl", "days_since_last_occupancy", days_since_last_occupancy(inp.perm))
CallTitleCleanFlag ==
    Returns("compl", "title_clean_flag_from_record",
            title_clean_flag_from_record(inp.title))
CallTapeQcFlags ==
    Returns("compl", "tape_qc_flags",
            tape_qc_flags(inp.vdate,
                          IF IsNone(inp.perm) THEN None ELSE The(inp.perm).completed_on,
                          title_clean_flag_from_record(inp.title).val))
CallLosPackageDict ==
    Returns("compl", "los_package_dict",
            los_package_dict(Unit("u1", "b1", R(50)), Building("b1", "p1"), Parcel("p1"),
                             inp.title, inp.perm, None, inp.vdate))
CallAvgTimeToLease ==
    Returns("series", "avg_time_to_lease", avg_time_to_lease(inp.series))
CallKwhFromSeries ==
    Returns("series", "kwh_per_m2_day_from_series",
            kwh_per_m2_day_from_series(Unit("u1", "b1", inp.x), inp.series))
CallWeightedAverageLife ==
    Returns("sched", "weighted_average_life", weighted_average_life(inp.schedule))
CallRiskParityWeights ==
    Returns("vars", "simple_risk_parity_weights",
            simple_risk_parity_weights(inp.variances))

NextLib ==
    \/ Tick
    \/ CallCapRate \/ CallValueFromCap \/ CallDscr \/ CallEquityMultiple
    \/ CallYieldOnCost \/ CallLtv \/ CallCltv \/ CallDti
    \/ CallFar \/ CallCoverageRatio \/ CallParkingRatio
    \/ CallMttr \/ CallOpexPerUnit \/ CallWaterIntensity \/ CallTurnoverRate
    \/ CallAmenityUtilization \/ CallCohortChurnRate
    \/ CallHazardScore \/ CallDeductibleEffect \/ CallMurabaha
    \/ CallRentRollTotal \/ CallOccupancyRate
    \/ CallDaysSinceLastOccupancy \/ CallTitleCleanFlag \/ CallTapeQcFlags
    \/ CallLosPackageDict
    \/ CallAvgTimeToLease \/ CallKwhFromSeries \/ CallWeightedAverageLife
    \/ CallRiskParityWeights

SpecLib == InitLib /\ [][NextLib]_vars

(***************************************************************************)
(* Data access (proptech/db.py).  A table is a sequence of rows in storage *)
(* order; a query without ORDER BY, or whose ORDER BY leaves ties, may     *)
(* return the rows in any order consistent with it.                        *)
(***************************************************************************)
Perms(n) == {f \in [1..n -> 1..n] : \A i, j \in 1..n : f[i] = f[j] => i = j}

RowSet(rows) == {rows[i] : i \in 1..Len(rows)}

\* the orders in which the database may return rows under ORDER BY: before[a, b]
\* says that row a may come before row b
Ordered(rows, before) ==
    {[i \in 1..Len(rows) |-> rows[f[i]]] : f \in
        {g \in Perms(Len(rows)) :
            \A i, j \in 1..Len(rows) : i < j => before[rows[g[i]], rows[g[j]]]}}

\* the rows LIMIT 1 may return under ORDER BY; None when there is no row
First(rows, before) ==
    IF rows = <<>> THEN {None} ELSE {Some(s[1]) : s \in Ordered(rows, before)}

TsLe(a, b) == a[1] < b[1] \/ (a[1] = b[1] /\ a[2] <= b[2])

\* datetime.utcnow(): noon of the current day
utcnow == <<today, 12>>

\* mutant: the first row of the view when none matches
fetch_unit_core_any(unit_id) ==
    LET rows == SelectSeq(db.core, LAMBDA r : r.u.id = unit_id) IN
    IF rows = <<>> THEN (IF db.core = <<>> THEN Raise("ValueError: not found")
                         ELSE Ok(db.core[1]))
    ELSE Ok(rows[1])

fetch_unit_core(unit_id) ==
    LET rows == SelectSeq(db.core, LAMBDA r : r.u.id = unit_id) IN
    IF rows = <<>> THEN Raise("ValueError: not found") ELSE Ok(rows[1])

\* ORDER BY start_date DESC
fetch_active_leases(unit_id) ==
    LET rows == SelectSeq(db.lease, LAMBDA r : r.unit_id = unit_id /\ r.status = "active")
    IN  Ordered(rows, [a \in RowSet(rows), b \in RowSet(rows) |->
                         a.start_date >= b.start_date])

\* x DESC NULLS LAST on Optional dates: a may come before b
DescNullsLast(a, b) == IsNone(b) \/ (~IsNone(a) /\ The(a) >= The(b))

\* ORDER BY completed_on DESC NULLS LAST, issued_on DESC NULLS LAST LIMIT 1
fetch_latest_permit_for_building(building_id) ==
    LET rows == SelectSeq(db.permit,
                          LAMBDA r : r.scope = "building" /\ r.scope_id = building_id
                                     /\ r.kind \in {"occupancy", "completion"})
    IN  First(rows, [a \in RowSet(rows), b \in RowSet(rows) |->
                       IF a.completed_on = b.completed_on
                       THEN a.issued_on >= b.issued_on
                       ELSE DescNullsLast(a.completed_on, b.completed_on)])

\* mutant: the latest record of the unit's and the parcel's together
fetch_latest_title_any_scope(unit_id, parcel_id) ==
    LET unit_rows == SelectSeq(db.title_record,
                               LAMBDA r : r.scope = "unit" /\ r.scope_id = unit_id)
        parcel_rows == SelectSeq(db.title_record,
                                 LAMBDA r : r.scope = "parcel" /\ r.scope_id = parcel_id)
        rows == unit_rows \o parcel_rows
    IN  First(rows, [a \in RowSet(rows), b \in RowSet(rows) |->
                       a.effective_on >= b.effective_on])

\* ORDER BY effective_on DESC LIMIT 1, the unit's records first
fetch_latest_title(unit_id, parcel_id) ==
    LET unit_rows == SelectSeq(db.title_record,
                               LAMBDA r : r.scope = "unit" /\ r.scope_id = unit_id)
        parcel_rows == SelectSeq(db.title_record,
                                 LAMBDA r : r.scope = "parcel" /\ r.scope_id = parcel_id)
        rows == IF unit_rows # <<>> THEN unit_rows ELSE parcel_rows
    IN  First(rows, [a \in RowSet(rows), b \in RowSet(rows) |->
                       a.effective_on >= b.effective_on])

\* no ORDER BY
fetch_unit_meters(unit_id) ==
    LET rows == SelectSeq(db.meter, LAMBDA r : r.scope = "unit" /\ r.scope_id = unit_id)
    IN  Ordered(rows, [a \in RowSet(rows), b \in RowSet(rows) |-> TRUE])

\* ts >= utcnow() - days_back, ORDER BY ts
fetch_readings(meter_id, days_back) ==
    LET ts_from == <<utcnow[1] - days_back, utcnow[2]>>
        rows == SelectSeq(db.meter_reading,
                          LAMBDA r : r.meter_id = meter_id /\ TsLe(ts_from, r.ts))
    IN  Ordered(rows, [a \in RowSet(rows), b \in RowSet(rows) |-> TsLe(a.ts, b.ts)])

(***************************************************************************)
(* Report pipeline (proptech/cli.py, main)                                 *)
(***************************************************************************)
RECURSIVE ByDay_per_reading(_)
\* mutant: one entry per reading, days not merged
ByDay_per_reading(readings) ==
    IF readings = <<>> THEN <<>>
    ELSE LET by_day == ByDay_per_reading(SubSeq(readings, 1, Len(readings) - 1))
             r == readings[Len(readings)]
         IN  Append(by_day, <<r.ts[1], FAdd(Zero, r.value)>>)

RECURSIVE ByDay(_)
\* by_day: the readings summed per calendar day, as <<day, sum>> pairs in the
\* order in which the days are first met
ByDay(readings) ==
    IF readings = <<>> THEN <<>>
    ELSE LET by_day == ByDay(SubSeq(readings, 1, Len(readings) - 1))
             r == readings[Len(readings)]
             d == r.ts[1]
             at == {i \in 1..Len(by_day) : by_day[i][1] = d}
         IN  IF at = {} THEN Append(by_day, <<d, FAdd(Zero, r.value)>>)
             ELSE [i \in 1..Len(by_day) |->
                     IF i \in at THEN <<d, FAdd(by_day[i][2], r.value)>> ELSE by_day[i]]

\* the electricity meter: next((m for m in meters if m.type == "electricity"), None)
FirstElectricity(meters) ==
    LET el == SelectSeq(meters, LAMBDA m : m.type = "electricity") IN
    IF el = <<>> THEN None ELSE Some(el[1])

NoLocals ==
    [u |-> None, b |-> None, p |-> None, leases |-> <<>>, permit |-> None,
     title |-> None, meters |-> <<>>, elec |-> None, readings |-> <<>>]

\* mutant: the balance is tested >= 0
CurrentLtv_nonneg(loan_balance, assumed_value) ==
    IF FGe(loan_balance, Zero)
    THEN LET v == ltv(loan_balance, assumed_value) IN
         IF Raised(v) THEN v ELSE Ok(Some(v.val))
    ELSE Ok(None)

\* current_ltv = ltv(loan_balance, assumed_value) if loan_balance > 0 else None
CurrentLtv(loan_balance, assumed_value) ==
    IF FGt(loan_balance, Zero)
    THEN LET v == ltv(loan_balance, assumed_value) IN
         IF Raised(v) THEN v ELSE Ok(Some(v.val))
    ELSE Ok(None)

\* intensity = kwh_per_m2_day_from_series(u, list(by_day.values())) if by_day else 0.0
Intensity(u, by_day) ==
    IF by_day # <<>>
    THEN kwh_per_m2_day_from_series(u, [i \in 1..Len(by_day) |-> by_day[i][2]])
    ELSE Ok(Zero)

\* the document main prints, or the exception one of its metrics raised
Report(l, a) ==
    LET u == The(l.u)
        b == The(l.b)
        p == The(l.p)
        monthly_rent == rent_roll_total(l.leases)
        annual_noi == IF Raised(monthly_rent) THEN monthly_rent
                      ELSE Ok(noi(monthly_rent.val, Zero, Zero))
        assumed_value == IF Raised(annual_noi) THEN annual_noi
                         ELSE value_from_cap(annual_noi.val, a.assumed_cap_rate)
        current_ltv == IF Raised(assumed_value) THEN assumed_value
                       ELSE CurrentLtv(a.loan_balance, assumed_value.val)
        occ_rate == occupancy_rate(<<u>>, l.leases)
        days_since_occ == days_since_last_occupancy(l.permit)
        title_ok == title_clean_flag_from_record(l.title)
        intensity == Intensity(u, ByDay(l.readings))
        steps == <<monthly_rent, annual_noi, assumed_value, current_ltv, occ_rate,
                   days_since_occ, title_ok, intensity>>
        failed == {i \in 1..Len(steps) : Raised(steps[i])}
    IN  IF failed # {}
        THEN steps[CHOOSE i \in failed : \A j \in failed : i <= j]
        ELSE Ok([parcel |-> [zoning |-> p.zoning, muni_id |-> p.muni_id],
                 building |-> [age_years |-> building_age_years(b, None),
                               floors |-> b.floors, bua_m2 |-> b.bua_m2],
                 unit |-> [use_type |-> u.use_type, nla_m2 |-> u.nla_m2,
                           floor_no |-> u.floor_no],
                 leases |-> [active_count |-> Len(l.leases),
                             rent_monthly_total |-> monthly_rent.val],
                 valuation |-> [assumed_cap_rate |-> a.assumed_cap_rate,
                                noi_annual |-> annual_noi.val,
                                implied_value |-> assumed_value.val,
                                ltv_from_input_balance |-> current_ltv.val],
                 compliance |-> [days_since_occupancy |-> days_since_occ.val,
                                 title_clean |-> title_ok.val],
                 energy |-> [kwh_per_m2_day |-> intensity.val,
                             window_days |-> a.days_back],
                 meta |-> [generated_on |-> today]])

\* u, b, p = fetch_unit_core(args.unit_id); a ValueError ends main
FetchUnitCore ==
    /\ pc = "start"
    /\ fetched' = Append(fetched, "fetch_unit_core")
    /\ LET r == fetch_unit_core(args.unit_id) IN
       IF Raised(r)
       THEN /\ err' = r.err
            /\ pc' = "aborted"
            /\ loc' = loc
       ELSE /\ err' = err
            /\ pc' = "leases"
            /\ loc' = [loc EXCEPT !.u = Some(r.val.u), !.b = Some(r.val.b),
                                  !.p = Some(r.val.p)]
    /\ UNCHANGED <<today, libVars, db, args, out>>

FetchActiveLeases ==
    /\ pc = "leases"
    /\ fetched' = Append(fetched, "fetch_active_leases")
    /\ \E rows \in fetch_active_leases(The(loc.u).id) : loc' = [loc EXCEPT !.leases = rows]
    /\ pc' = "permit"
    /\ UNCHANGED <<today, libVars, db, args, out, err>>

FetchLatestPermit ==
    /\ pc = "permit"
    /\ fetched' = Append(fetched, "fetch_latest_permit_for_building")
    /\ \E row \in fetch_latest_permit_for_building(The(loc.b).id) :
          loc' = [loc EXCEPT !.permit = row]
    /\ pc' = "title"
    /\ UNCHANGED <<today, libVars, db, args, out, err>>

FetchLatestTitle ==
    /\ pc = "title"
    /\ fetched' = Append(fetched, "fetch_latest_title")
    /\ \E row \in fetch_latest_title(The(loc.u).id, The(loc.p).id) :
          loc' = [loc EXCEPT !.title = row]
    /\ pc' = "meters"
    /\ UNCHANGED <<today, libVars, db, args, out, err>>

\* meters = fetch_unit_meters(u.id); elec = the first electricity meter
FetchUnitMeters ==
    /\ pc = "meters"
    /\ fetched' = Append(fetched, "fetch_unit_meters")
    /\ \E rows \in fetch_unit_meters(The(loc.u).id) :
          loc' = [loc EXCEPT !.meters = rows, !.elec = FirstElectricity(rows)]
    /\ pc' = "readings"
    /\ UNCHANGED <<today, libVars, db, args, out, err>>

\* readings = fetch_readings(elec.id, days_back) if elec else []
FetchReadings ==
    /\ pc = "readings"
    /\ IF IsNone(loc.elec)
       THEN /\ fetched' = fetched
            /\ loc' = [loc EXCEPT !.readings = <<>>]
       ELSE /\ fetched' = Append(fetched, "fetch_readings")
            /\ \E rows \in fetch_readings(The(loc.elec).id, args.days_back) :
                  loc' = [loc EXCEPT !.readings = rows]
    /\ pc' = "compute"
    /\ UNCHANGED <<today, libVars, db, args, out, err>>

\* the metrics, the report document and print(json.dumps(out))
ComputeAndPrint ==
    /\ pc = "compute"
    /\ LET r == Report(loc, args) IN
       IF Raised(r)
       THEN /\ err' = r.err
            /\ pc' = "aborted"
            /\ out' = out
       ELSE /\ err' = err
            /\ pc' = "done"
            /\ out' = Append(out, r.val)
    /\ UNCHANGED <<today, libVars, db, args, fetched, loc>>

(***************************************************************************)
(* Databases and command lines of the report pipeline                      *)
(***************************************************************************)
\* sequences of at most n distinct rows
SeqNoRep(S, n) == {q \in SeqUpTo(S, n) : \A i, j \in 1..Len(q) : q[i] = q[j] => i = j}

CoreRow(nla_m2) ==
    [u |-> Unit("u1", "b1", nla_m2), b |-> Building("b1", "p1"), p |-> Parcel("p1")]

LeaseRows ==
    {Lease("u1", -5, 30, R(5000), "active"), Lease("u1", -20, 10, R(1000), "active"),
     Lease("u1", -30, -10, R(2000), "expired"), Lease("u2", -5, 30, R(3000), "active")}
PermitRows ==
    {Permit("building", "b1", "occupancy", -400, Some(-10)),
     Permit("building", "b1", "completion", -500, None),
     Permit("building", "b1", "demolition", -3, Some(-2)),
     Permit("building", "b2", "occupancy", -3, Some(-1))}
TitleRows ==
    {TitleRecord("unit", "u1", "D-1", [lien_status |-> "FREE"], -100),
     TitleRecord("unit", "u1", "D-2", [lien_status |-> "mortgaged"], -50),
     TitleRecord("parcel", "p1", "D-3", [lien_status |-> "released"], -10),
     TitleRecord("parcel", "p1", "D-4", [lien_status |-> "mortgaged"], -60),
     TitleRecord("unit", "u2", "D-5", [lien_status |-> "FREE"], -5)}
MeterRows ==
    {Meter("m1", "unit", "u1", "electricity"), Meter("m2", "unit", "u1", "water"),
     Meter("m3", "unit", "u1", "electricity")}
ReadingRows ==
    {MeterReading("m1", <<0, 8>>, R(3)), MeterReading("m1", <<0, 20>>, R(6)),
     MeterReading("m1", <<-1, 8>>, R(3)), MeterReading("m1", <<-30, 8>>, R(6)),
     MeterReading("m3", <<0, 8>>, R(9)), MeterReading("m1", <<-6, 8>>, R(6))}

CapRates == {<<3, 50>>, Zero, <<-1, 2>>}
LoanBalances == {Zero, R(400000), R(-100)}

DefaultDb ==
    [core |-> <<CoreRow(R(50))>>,
     lease |-> <<Lease("u1", -5, 30, R(5000), "active")>>,
     permit |-> <<Permit("building", "b1", "occupancy", -400, Some(-10))>>,
     title_record |-> <<TitleRecord("unit", "u1", "D-1", [lien_status |-> "FREE"], -100)>>,
     meter |-> <<Meter("m1", "unit", "u1", "electricity")>>,
     meter_reading |-> <<MeterReading("m1", <<0, 8>>, R(3))>>]

\* --unit-id, --days-back (default 7), --assumed-cap-rate (default 0.06),
\* --loan-balance (default 0.0)
DefaultArgs ==
    [unit_id |-> "u1", days_back |-> 7, assumed_cap_rate |-> <<3, 50>>,
     loan_balance |-> Zero]

CliInputs ==
    \* optional data present or missing, the unit resolving or not
    {[db |-> [DefaultDb EXCEPT !.lease = l, !.permit = pm, !.title_record = t,
                               !.meter = m, !.meter_reading = rd],
      args |-> [DefaultArgs EXCEPT !.unit_id = uid]] :
        l \in {<<>>, DefaultDb.lease},
        pm \in {<<>>, <<Permit("building", "b1", "completion", -500, None)>>,
                DefaultDb.permit},
        t \in {<<>>, DefaultDb.title_record},
        m \in {<<>>, <<Meter("m2", "unit", "u1", "water")>>, DefaultDb.meter},
        rd \in {<<>>, <<MeterReading("m1", <<-30, 8>>, R(6))>>, DefaultDb.meter_reading},
        uid \in {"u1", "u9"}}
    \* rent rolls, cap rates and loan balances
    \cup {[db |-> [DefaultDb EXCEPT !.lease = l],
           args |-> [DefaultArgs EXCEPT !.assumed_cap_rate = c, !.loan_balance = lb]] :
            l \in SeqUpTo(LeaseRows, MaxLen), c \in CapRates, lb \in LoanBalances}
    \* permits and title records
    \cup {[db |-> [DefaultDb EXCEPT !.permit = pm, !.title_record = t],
           args |-> DefaultArgs] :
            pm \in SeqNoRep(PermitRows, MaxLen), t \in SeqNoRep(TitleRows, MaxLen)}
    \* meters, readings and areas
    \cup {[db |-> [DefaultDb EXCEPT !.core = <<CoreRow(a)>>, !.meter = m,
                                    !.meter_reading = rd],
           args |-> DefaultArgs] :
            m \in SeqNoRep(MeterRows, MaxLen), rd \in SeqNoRep(ReadingRows, MaxLen),
            a \in {R(50), Zero, R(-50)}}

InitCli ==
    /\ today \in Days
    /\ inp = NoInput
    /\ call = NoCall
    /\ \E i \in CliInputs : db = i.db /\ args = i.args
    /\ pc = "start"
    /\ fetched = <<>>
    /\ loc = NoLocals
    /\ out = <<>>
    /\ err = "none"

NextCli ==
    \/ Tick
    \/ FetchUnitCore \/ FetchActiveLeases \/ FetchLatestPermit \/ FetchLatestTitle
    \/ FetchUnitMeters \/ FetchReadings \/ ComputeAndPrint

SpecCli == InitCli /\ [][NextCli]_vars

(***************************************************************************)
(* Properties                                                              *)
(***************************************************************************)
\* q is the quotient x / y of a denominator y > 0
IsQuotient(q, x, y) ==
    IF IsFinite(y)
    THEN IF IsFinite(x) THEN IsFinite(q) /\ FMul(q, y) = x ELSE q = x
    ELSE IF IsFinite(x) THEN q = Zero ELSE IsNaN(q)

\* sum of f over the set S of its arguments
RECURSIVE SumOver(_, _)
SumOver(f, S) ==
    IF S = {} THEN Zero
    ELSE LET k == CHOOSE k \in S : TRUE IN FAdd(SumOver(f, S \ {k}), f[k])

RatioFns ==
    {"cap_rate", "dscr", "equity_multiple", "yield_on_cost", "ltv", "cltv", "dti",
     "far", "coverage_ratio", "parking_ratio"}

\* C1: every ratio function of the policy table returns exactly 0.0 when its
\* denominator is <= 0, whatever the sign of the numerator, and numerator /
\* denominator when the denominator is > 0; ltv(500000, 2000000) = 0.25 and
\* ltv(1000000, 0) = 0.0.
C1_RatioPolicy ==
    /\ call.fn \in RatioFns =>
         /\ FLe(inp.y, Zero) => call.res = Ok(Zero)
         /\ FGt(inp.y, Zero) =>
              ~Raised(call.res) /\ IsQuotient(call.res.val, inp.x, inp.y)
    /\ call.fn = "ltv" =>
         /\ ltv(R(500000), R(2000000)) = Ok(<<1, 4>>)
         /\ ltv(R(1000000), Zero) = Ok(Zero)

\* a negative numerator over a zero denominator gave 0.0
C1_Witness ==
    /\ call.fn = "cap_rate"
    /\ inp.x = R(-1)
    /\ inp.y = Zero
    /\ call.res = Ok(Zero)

DividingFns ==
    RatioFns \cup
    {"mttr", "opex_per_unit", "water_intensity_m3_per_m2_year", "turnover_rate",
     "amenity_utilization", "cohort_churn_rate", "avg_time_to_lease",
     "kwh_per_m2_day_from_series", "weighted_average_life",
     "deductible_effect_expected_cost", "simple_risk_parity_weights",
     "murabaha_equal_installments_schedule", "simple_hazard_distance_score"}

\* C2: no dividing function of the metric library raises on a zero denominator:
\* every call of one returns a defined value, simple_hazard_distance_score with
\* threshold_m = 0 included.
C2_NoDivisionError ==
    call.fn \in DividingFns => ~Raised(call.res)

\* C3: value_from_cap returns +infinity for every cap rate <= 0 and every NOI,
\* and noi / cap_rate for every cap rate > 0.
C3_ValueFromCap ==
    call.fn = "value_from_cap" =>
        /\ FLe(inp.y, Zero) => call.res = Ok(Inf)
        /\ FGt(inp.y, Zero) =>
             ~Raised(call.res) /\ IsQuotient(call.res.val, inp.x, inp.y)

\* a negative NOI at a zero cap rate gave +infinity
C3_Witness ==
    /\ call.fn = "value_from_cap"
    /\ inp.x = R(-1)
    /\ inp.y = Zero
    /\ call.res = Ok(Inf)

\* C4: rent_roll_total is the sum of rent_monthly over exactly the leases whose
\* status is "active", whatever their dates; planned, expired and defaulted
\* leases contribute nothing; rents 1000 active and 2000 expired give 1000.
C4_RentRollActiveOnly ==
    call.fn = "rent_roll_total" =>
        LET ls == inp.leases
            act == {i \in 1..Len(ls) : ls[i].status = "active"}
        IN  /\ call.res = Ok(SumOver([i \in 1..Len(ls) |-> ls[i].rent_monthly], act))
            /\ (/\ Len(ls) = 2
                /\ ls[1].status = "active" /\ ls[1].rent_monthly = R(1000)
                /\ ls[2].status = "expired" /\ ls[2].rent_monthly = R(2000))
               => call.res = Ok(R(1000))

\* an active lease whose dates lie in the past was counted, an expired lease
\* whose dates span today was not
C4_Witness ==
    /\ call.fn = "rent_roll_total"
    /\ Len(inp.leases) = 2
    /\ inp.leases[1].status = "active"
    /\ inp.leases[1].end_date < 0
    /\ inp.leases[1].rent_monthly = R(1000)
    /\ inp.leases[2].status = "expired"
    /\ inp.leases[2].end_date > MaxDay
    /\ inp.leases[2].rent_monthly = R(2000)
    /\ call.res = Ok(R(1000))

\* C5: occupancy_rate is (distinct unit ids of the unit set with at least one
\* active lease) / (distinct unit ids of the unit set), 0.0 without units, and
\* so lies in [0, 1] whatever the duplicates and the leases on other units.
C5_OccupancyRate ==
    call.fn = "occupancy_rate" =>
        LET ids == {inp.units[i].id : i \in 1..Len(inp.units)}
            occ == {u \in ids : \E i \in 1..Len(inp.leases) :
                        inp.leases[i].unit_id = u /\ inp.leases[i].status = "active"}
        IN  /\ ~Raised(call.res)
            /\ ids = {} => call.res.val = Zero
            /\ ids # {} => call.res.val = Norm(Cardinality(occ), Cardinality(ids))
            /\ FLe(Zero, call.res.val) /\ FLe(call.res.val, One)
            /\ (Cardinality(ids) = 2 /\ Cardinality(occ) = 1) => call.res.val = <<1, 2>>

\* a duplicated unit with an active lease, and an active lease on a unit
\* outside the set, gave 1
C5_Witness ==
    /\ call.fn = "occupancy_rate"
    /\ Len(inp.units) = 2
    /\ inp.units[1] = inp.units[2]
    /\ \E i \in 1..Len(inp.leases) :
          inp.leases[i].unit_id = "u3" /\ inp.leases[i].status = "active"
    /\ call.res = Ok(One)

\* the unit identifier resolves
Resolves == \E i \in 1..Len(db.core) : db.core[i].u.id = args.unit_id

\* the unit's active leases in the database
ActiveRows ==
    {i \in 1..Len(db.lease) :
        db.lease[i].unit_id = args.unit_id /\ db.lease[i].status = "active"}

ActiveRent == SumOver([i \in 1..Len(db.lease) |-> db.lease[i].rent_monthly], ActiveRows)

\* rent roll, NOI, and the counts of the report
ReportRentAndNoi(r) ==
    /\ r.leases.rent_monthly_total = ActiveRent
    /\ r.leases.active_count = Cardinality(ActiveRows)
    /\ r.valuation.noi_annual = FMul(R(12), ActiveRent)

\* C6 as amended: in the report of a resolved unit, noi_annual = 12 x (sum of
\* the unit's active leases' monthly rent), rent_monthly_total and active_count
\* describe the same active leases, and implied_value = noi_annual / assumed cap
\* rate when the cap rate is > 0 and +infinity when it is <= 0; one active lease
\* at 5000/month with cap rate 0.06 gives NOI 60000, implied value 1,000,000 and,
\* with loan balance 400,000, an LTV of 0.4.
C6_ReportValuation ==
    pc = "done" =>
        LET r == out[1]
            cap == args.assumed_cap_rate
        IN  /\ ReportRentAndNoi(r)
            /\ FGt(cap, Zero) =>
                 IsQuotient(r.valuation.implied_value, r.valuation.noi_annual, cap)
            /\ FLe(cap, Zero) => r.valuation.implied_value = Inf
            /\ (ActiveRent = R(5000) /\ cap = <<3, 50>>) =>
                 /\ r.valuation.noi_annual = R(60000)
                 /\ r.valuation.implied_value = R(1000000)
                 /\ args.loan_balance = R(400000) =>
                      r.valuation.ltv_from_input_balance = Some(<<2, 5>>)

\* the end-to-end example: 5000/month, cap rate 0.06, loan balance 400,000
C6_Witness ==
    /\ pc = "done"
    /\ Cardinality(ActiveRows) = 1
    /\ args.assumed_cap_rate = <<3, 50>>
    /\ args.loan_balance = R(400000)
    /\ out[1].valuation.noi_annual = R(60000)
    /\ out[1].valuation.implied_value = R(1000000)
    /\ out[1].valuation.ltv_from_input_balance = Some(<<2, 5>>)

\* C6 as stated: in the report of a resolved unit, noi_annual = 12 x (sum of the
\* unit's active leases' monthly rent), rent_monthly_total and active_count
\* describe the same active leases, and implied_value = noi_annual / assumed cap
\* rate.
C6_Original ==
    pc = "done" =>
        /\ ReportRentAndNoi(out[1])
        /\ Ok(out[1].valuation.implied_value)
             = PyDiv(out[1].valuation.noi_annual, args.assumed_cap_rate)

\* C7: ltv_from_input_balance is computed only if the loan balance is > 0 and is
\* null otherwise; when computed it equals ltv(loan balance, implied value), for
\* every rent roll and every assumed cap rate.
C7_LtvOnlyIfPositiveBalance ==
    pc = "done" =>
        LET v == out[1].valuation
            lb == args.loan_balance
        IN  /\ FLe(lb, Zero) => IsNone(v.ltv_from_input_balance)
            /\ FGt(lb, Zero) =>
                 /\ ~IsNone(v.ltv_from_input_balance)
                 /\ FLe(v.implied_value, Zero) => The(v.ltv_from_input_balance) = Zero
                 /\ FGt(v.implied_value, Zero) =>
                      IsQuotient(The(v.ltv_from_input_balance), lb, v.implied_value)

\* a positive balance against an infinite implied value gave an LTV of 0
C7_Witness ==
    /\ pc = "done"
    /\ FGt(args.loan_balance, Zero)
    /\ out[1].valuation.implied_value = Inf
    /\ out[1].valuation.ltv_from_input_balance = Some(Zero)

\* the fetches of a run, in order; fetch_readings only with an electricity meter
Pipeline(withReadings) ==
    <<"fetch_unit_core", "fetch_active_leases", "fetch_latest_permit_for_building",
      "fetch_latest_title", "fetch_unit_meters">>
    \o (IF withReadings THEN <<"fetch_readings">> ELSE <<>>)

IsPrefix(s, t) == Len(s) <= Len(t) /\ SubSeq(t, 1, Len(s)) = s

HasElectricity ==
    \E i \in 1..Len(db.meter) :
        /\ db.meter[i].scope = "unit"
        /\ db.meter[i].scope_id = args.unit_id
        /\ db.meter[i].type = "electricity"

\* C8: when the unit identifier does not resolve, report generation aborts with
\* the not-found error, nothing is fetched after the unit lookup and no report is
\* emitted; when it resolves, the steps run once each, in order, and exactly one
\* report is emitted.
C8_NotFoundAborts ==
    /\ IsPrefix(fetched, Pipeline(TRUE))
    /\ (~Resolves /\ pc # "start") =>
         /\ pc = "aborted"
         /\ err = "ValueError: not found"
         /\ fetched = <<"fetch_unit_core">>
         /\ loc = NoLocals
         /\ out = <<>>
    /\ Resolves =>
         /\ pc # "aborted"
         /\ pc # "done" => out = <<>>
         /\ pc = "done" => Len(out) = 1 /\ fetched = Pipeline(HasElectricity)

\* an unresolved unit aborted the run after the unit lookup
C8_Witness ==
    /\ ~Resolves
    /\ pc = "aborted"
    /\ err = "ValueError: not found"
    /\ fetched = <<"fetch_unit_core">>
    /\ out = <<>>

\* the occupancy or completion permits of the unit's building
BuildingPermits ==
    {i \in 1..Len(db.permit) :
        /\ db.permit[i].scope = "building"
        /\ db.permit[i].scope_id = The(loc.b).id
        /\ db.permit[i].kind \in {"occupancy", "completion"}}

\* the title records of the unit and of its parcel
UnitOrParcelTitles ==
    {i \in 1..Len(db.title_record) :
        \/ db.title_record[i].scope = "unit"
           /\ db.title_record[i].scope_id = The(loc.u).id
        \/ db.title_record[i].scope = "parcel"
           /\ db.title_record[i].scope_id = The(loc.p).id}

\* the readings of the electricity meter used that can lie in a window
WindowReadings ==
    IF IsNone(loc.elec) THEN {}
    ELSE {i \in 1..Len(db.meter_reading) :
            /\ db.meter_reading[i].meter_id = The(loc.elec).id
            /\ db.meter_reading[i].ts[1] >= 0 - args.days_back}

\* C9: for a resolved unit every combination of missing optional data yields a
\* report and no error: no permit, or none with a completion date, gives
\* days_since_occupancy = null; no title record gives title_clean = false; no
\* electricity meter or no reading in the window gives kwh_per_m2_day = 0.0; no
\* active lease gives rent_monthly_total = 0 and noi_annual = 0.
C9_MissingOptionalData ==
    Resolves =>
        /\ pc # "aborted"
        /\ err = "none"
        /\ pc = "done" =>
             LET r == out[1] IN
             /\ Len(out) = 1
             /\ (\A i \in BuildingPermits : IsNone(db.permit[i].completed_on))
                  => IsNone(r.compliance.days_since_occupancy)
             /\ UnitOrParcelTitles = {} => r.compliance.title_clean = FALSE
             /\ (~HasElectricity \/ WindowReadings = {}) => r.energy.kwh_per_m2_day = Zero
             /\ ActiveRows = {} =>
                  r.leases.rent_monthly_total = Zero /\ r.valuation.noi_annual = Zero

\* a unit with no lease, permit, title record or meter got its report
C9_Witness ==
    /\ pc = "done"
    /\ db.lease = <<>> /\ db.permit = <<>> /\ db.title_record = <<>> /\ db.meter = <<>>
    /\ Len(out) = 1
    /\ IsNone(out[1].compliance.days_since_occupancy)
    /\ out[1].compliance.title_clean = FALSE
    /\ out[1].energy.kwh_per_m2_day = Zero
    /\ out[1].valuation.noi_annual = Zero

\* C10: every metric-library function is a function of its explicit arguments
\* only: a call repeated with the same arguments returns the same result,
\* whatever the current date is at each call.
C10_PureFunctions ==
    [][(call.fn # "none" /\ call'.fn = call.fn) => call'.res = call.res]_vars

\* the buckets whose variance is > 0
PositiveBuckets(v) == {k \in DOMAIN v : FGt(v[k], Zero)}

\* the sum of 1 / v[k] over the buckets B
InverseSum(v, B) == SumOver([k \in B |-> FDiv(One, v[k])], B)

EarliestDate(s) == CHOOSE d \in {s[i][1] : i \in 1..Len(s)} :
                       \A i \in 1..Len(s) : d <= s[i][1]

\* days / 365.25
DaysAsYears(days) == FDiv(R(days), <<1461, 4>>)

\* the schedule s with its pairs in the order f
Reordered(s, f) == [i \in 1..Len(s) |-> s[f[i]]]

\* C12: weighted_average_life returns 0.0 when the schedule is empty or the
\* total principal is <= 0, and otherwise the sum over the pairs of (days since
\* the earliest date / 365.25) x payment, divided by the total principal; the
\* result does not depend on the order of the pairs, and a schedule whose
\* payments all fall on one date has a life of 0.
C12_WeightedAverageLife ==
    call.fn = "weighted_average_life" =>
        LET s == inp.schedule
            I == 1..Len(s)
            total == SumOver([i \in I |-> s[i][2]], I)
        IN  /\ ~Raised(call.res)
            /\ (s = <<>> \/ FLe(total, Zero)) => call.res.val = Zero
            /\ (s # <<>> /\ FGt(total, Zero)) =>
                 LET t0 == EarliestDate(s)
                     weighted == SumOver([i \in I |->
                                   FMul(DaysAsYears(s[i][1] - t0), s[i][2])], I)
                 IN  /\ IsQuotient(call.res.val, weighted, total)
                     /\ (\A i \in I : s[i][1] = t0) => call.res.val = Zero
            /\ \A f \in Perms(Len(s)) :
                 weighted_average_life(Reordered(s, f)) = call.res

\* 100 paid at day 365 and 100 at day 0, latest first: a life of 730/1461,
\* which is 0.4997 years
C12_Witness ==
    /\ call.fn = "weighted_average_life"
    /\ inp.schedule = <<<<365, R(100)>>, <<0, R(100)>>>>
    /\ call.res = Ok(<<730, 1461>>)

\* the title records attached to the scope (unit or parcel) with identifier id
TitlesOf(scope, id) ==
    {r \in RowSet(db.title_record) : r.scope = scope /\ r.scope_id = id}

\* the records of S with the latest effective date
LatestOf(S) == {r \in S : \A o \in S : r.effective_on >= o.effective_on}

\* the lien status of record r reads free or released, in any case
LienCleared(r) ==
    /\ "lien_status" \in DOMAIN r.encumbrance
    /\ r.encumbrance.lien_status \in
         {"free", "FREE", "Free", "released", "RELEASED", "Released"}

\* C13: title resolution prefers unit scope: whenever a title record is attached
\* to the unit, the record used for title_clean is the unit's record with the
\* latest effective date, even when a parcel record is later; the parcel's latest
\* record is used only when the unit has none, and the result is absent only
\* when neither scope has one.
C13_TitleUnitScopeFirst ==
    (Resolves /\ pc \in {"meters", "readings", "compute", "done"}) =>
        LET ofUnit == TitlesOf("unit", args.unit_id)
            ofParcel == TitlesOf("parcel", The(loc.p).id)
            used == IF ofUnit # {} THEN LatestOf(ofUnit) ELSE LatestOf(ofParcel)
        IN  /\ IsNone(loc.title) <=> (ofUnit = {} /\ ofParcel = {})
            /\ ~IsNone(loc.title) => The(loc.title) \in used
            /\ pc = "done" =>
                 out[1].compliance.title_clean =
                    (\E r \in used : r = The(loc.title) /\ LienCleared(r))

\* the unit's mortgaged record was used although the parcel's released record
\* is 40 days later
C13_Witness ==
    /\ pc = "done"
    /\ \E r \in TitlesOf("unit", args.unit_id) :
          r.effective_on = -50 /\ r.encumbrance.lien_status = "mortgaged"
    /\ \E r \in TitlesOf("parcel", The(loc.p).id) :
          r.effective_on = -10 /\ r.encumbrance.lien_status = "released"
    /\ The(loc.title).scope = "unit"
    /\ out[1].compliance.title_clean = FALSE

\* the readings of the electricity meter used that lie in the window of a fetch
\* made on day t
WindowAt(t) ==
    IF IsNone(loc.elec) THEN {}
    ELSE {i \in 1..Len(db.meter_reading) :
            /\ db.meter_reading[i].meter_id = The(loc.elec).id
            /\ TsLe(<<t - args.days_back, 12>>, db.meter_reading[i].ts)}

\* kwh is (the sum of the readings W / the number of their days) / area
IsDailyIntensity(kwh, W, area) ==
    LET total == SumOver([i \in W |-> db.meter_reading[i].value], W)
        days == {db.meter_reading[i].ts[1] : i \in W}
    IN  IF FLe(area, Zero) \/ W = {} THEN kwh = Zero
        ELSE FMul(FMul(kwh, area), R(Cardinality(days))) = total

\* C14: the report's kwh_per_m2_day is computed from the per-day sums of the
\* window's readings of the unit's first electricity meter: it is (sum of all
\* readings in the window / number of distinct days with a reading) / net
\* leasable area, however many readings fall on each day and whatever their
\* order, and 0.0 when the area is <= 0 or there is no reading.
C14_DailyEnergyIntensity ==
    (Resolves /\ pc = "done") =>
        /\ ~IsNone(loc.elec) =>
             \E i \in 1..Len(db.meter) :
                 db.meter[i] = The(loc.elec) /\ db.meter[i].type = "electricity"
        /\ \E t \in 0..today :
             /\ \A i \in 1..Len(db.meter_reading) :
                  (i \in WindowAt(t)) <=>
                     (\E j \in 1..Len(loc.readings) : loc.readings[j] = db.meter_reading[i])
             /\ IsDailyIntensity(out[1].energy.kwh_per_m2_day, WindowAt(t),
                                 The(loc.u).nla_m2)

\* two readings of one day, 3 and 6 kWh, on 50 m2 gave 9/50 and not the mean of
\* the readings
C14_Witness ==
    /\ pc = "done"
    /\ The(loc.u).nla_m2 = R(50)
    /\ Len(loc.readings) = 2
    /\ loc.readings[1].ts[1] = loc.readings[2].ts[1]
    /\ loc.readings[1].value = R(3)
    /\ loc.readings[2].value = R(6)
    /\ out[1].energy.kwh_per_m2_day = <<9, 50>>

\* C15: for every distance_m and every threshold_m, positive, zero or negative,
\* simple_hazard_distance_score returns a value in the closed interval [0, 1]:
\* 1.0 when distance_m >= threshold_m, otherwise distance_m / threshold_m
\* floored at 0.
C15_HazardScoreInUnitInterval ==
    call.fn = "simple_hazard_distance_score" =>
        /\ ~Raised(call.res)
        /\ FLe(Zero, call.res.val) /\ FLe(call.res.val, One)
        /\ FGe(inp.x, inp.y) => call.res.val = One
        /\ FLt(inp.x, inp.y) =>
             \/ IsQuotient(call.res.val, inp.x, inp.y) /\ FGe(call.res.val, Zero)
             \/ call.res.val = Zero

====
